---- MODULE Spec2Model ----
(***************************************************************************)
(* A model of the multi-source query/aggregation layer of moneta_streamlit: *)
(* AuctionBase (connection handling, search normaliser), the Adalex and     *)
(* Aurora adapters and the AuctionFactory aggregator.                       *)
(*                                                                          *)
(* Conventions.                                                             *)
(*  - A Python Optional / an SQL nullable value is a sequence of length     *)
(*    <= 1: None / NULL is <<>>, a present value v is <<v>>.                *)
(*  - A text (str) is a sequence of one-character strings.  The characters  *)
(*    "zh" and "ZH" stand for a non-ASCII letter pair (Cyrillic zhe).       *)
(*  - The result of a call is Ok(value) or Raise(exception name).           *)
(***************************************************************************)
EXTENDS Integers, Sequences, FiniteSets, TLC

VARIABLES
    exists,              \* exists[n]: os.path.exists(db_path) of adapter n
    conn,                \* conn[n]: adapter n's self.conn is not None
    nopen,               \* nopen[n]: sqlite connections adapter n opened and has not closed
    available_auctions,  \* AuctionFactory.available_auctions
    db,                  \* db[n]: the rows of table lots of adapter n's store, in rowid order
    columns,             \* columns[n]: the catalogue_<type> columns table lots of n has
    request,             \* the inputs of the session: the query spec its widgets hold,
                         \* or the text, or the lot and the directory listing
    last                 \* the latest step: operation, arguments, result

vars == <<exists, conn, nopen, available_auctions, db, columns, request, last>>

---------------------------------------------------------------------------
\* Optional values and call results

None == <<>>
Some(v) == <<v>>
Val(o) == o[1]

\* Python truthiness of an Optional list or text: None, [] and '' are falsy.
Truthy(o) == o # None /\ Val(o) # <<>>

\* Python truthiness of an Optional[str] held as an atomic string.
TruthyStr(o) == o # None /\ Val(o) # ""

Ok(v) == [raised |-> "none", value |-> v]
Raise(e) == [raised |-> e, value |-> <<>>]
Raised(r) == r.raised # "none"

Min(a, b) == IF a <= b THEN a ELSE b
Max(a, b) == IF a >= b THEN a ELSE b

---------------------------------------------------------------------------
\* Characters and texts

\* A character str.split() and str.strip() take for whitespace.
IsSpace(c) == c \in {" ", "\t"}

\* str.lower() of one character: Unicode aware.
PyLower(c) == CASE c = "A" -> "a" [] c = "B" -> "b" [] c = "ZH" -> "zh" [] OTHER -> c

\* SQLite's LOWER() and the case folding of LIKE: ASCII letters only.
SqlLower(c) == CASE c = "A" -> "a" [] c = "B" -> "b" [] OTHER -> c

lower(s) == [i \in 1..Len(s) |-> PyLower(s[i])]
LOWER(s) == [i \in 1..Len(s) |-> SqlLower(s[i])]

\* COALESCE(x, ''): a NULL text reads as the empty text.
COALESCE(o) == IF o = None THEN <<>> ELSE Val(o)

RECURSIVE split_from(_, _)
split_from(s, cur) ==
    IF s = <<>> THEN (IF cur = <<>> THEN <<>> ELSE <<cur>>)
    ELSE IF IsSpace(Head(s))
         THEN (IF cur = <<>> THEN split_from(Tail(s), <<>>)
               ELSE <<cur>> \o split_from(Tail(s), <<>>))
         ELSE split_from(Tail(s), Append(cur, Head(s)))

\* str.split(): the maximal runs of non-whitespace characters, in order.
split(s) == split_from(s, <<>>)

RECURSIVE lstrip(_)
lstrip(s) == IF s # <<>> /\ IsSpace(Head(s)) THEN lstrip(Tail(s)) ELSE s

RECURSIVE rstrip(_)
rstrip(s) ==
    IF s # <<>> /\ IsSpace(s[Len(s)]) THEN rstrip(SubSeq(s, 1, Len(s) - 1)) ELSE s

strip(s) == rstrip(lstrip(s))

\* improve_search_query that keeps the tokens of one character.
improve_search_query_keeps_short(query) ==
    IF query = <<>> THEN <<>>
    ELSE LET tokens == split(query)
             kept == SelectSeq(tokens, LAMBDA w : Len(strip(w)) >= 1)
         IN  [i \in 1..Len(kept) |-> lower(strip(kept[i]))]

\* AuctionBase.improve_search_query
improve_search_query(query) ==
    IF query = <<>> THEN <<>>
    ELSE LET tokens == split(query)
             kept == SelectSeq(tokens, LAMBDA w : Len(strip(w)) >= 2)
         IN  [i \in 1..Len(kept) |-> lower(strip(kept[i]))]

\* SQLite's  txt LIKE pat : % matches any run, _ any one character, letters
\* compare case-insensitively within ASCII.
RECURSIVE Like(_, _)
Like(txt, pat) ==
    IF pat = <<>> THEN txt = <<>>
    ELSE IF Head(pat) = "%"
         THEN Like(txt, Tail(pat)) \/ (txt # <<>> /\ Like(Tail(txt), pat))
         ELSE /\ txt # <<>>
              /\ (Head(pat) = "_" \/ SqlLower(Head(pat)) = SqlLower(Head(txt)))
              /\ Like(Tail(txt), Tail(pat))

\* f'%{word}%'
WordPattern(word) == <<"%">> \o word \o <<"%">>

\* ' AND '.join of  LOWER(COALESCE(field, '')) LIKE ?  over the words
AllWordsMatch(field, words) ==
    \A i \in 1..Len(words) : Like(LOWER(COALESCE(field)), WordPattern(words[i]))

---------------------------------------------------------------------------
\* The registry and the stores

Adalex == "Adalex"
Aurora == "Aurora"
RedkieMonety == "Redkie Monety"

\* AuctionFactory.auctions, in insertion order
auctions == <<Adalex, Aurora, RedkieMonety>>
Registered == {auctions[i] : i \in 1..Len(auctions)}

\* f"catalogue_{catalogue_type.lower()}"
catalogue_column(catalogue_type) ==
    CASE catalogue_type \in {"Bitkin", "bitkin"} -> "catalogue_bitkin"
      [] OTHER -> "catalogue_other"

\* The value a row holds in a catalogue column of its table.
ColumnValue(r, column) == IF column = "catalogue_bitkin" THEN r.catalogue_bitkin ELSE None

\* The atomic strings of the model in ascending order (SQLite BINARY collation
\* and Python's str order agree on them).
Collation == <<"Ag", "Au", "coin", "k1", "k2", "medal">>
StrRank(v) == CHOOSE i \in 1..Len(Collation) : Collation[i] = v
IntRank(v) == v

RECURSIVE SortedSeq(_, _)
\* The elements of a finite set in ascending order of rank.
SortedSeq(S, rank) ==
    IF S = {} THEN <<>>
    ELSE LET m == CHOOSE x \in S : \A y \in S : rank[x] <= rank[y]
         IN  <<m>> \o SortedSeq(S \ {m}, rank)

\* SQL  column = ?  : a NULL column never matches.
SqlEq(column, param) == column # None /\ Val(column) = param

\* SQL  column IN (?, ..., ?)
SqlIn(column, params) ==
    column # None /\ \E i \in 1..Len(params) : params[i] = Val(column)

\* SQL  LIMIT ? OFFSET ?  over the rows the WHERE clause keeps
LimitOffset(rows, limit, offset) ==
    IF limit = None THEN rows
    ELSE SubSeq(rows, offset + 1, Min(Len(rows), offset + Val(limit)))

\* SELECT DISTINCT column FROM lots WHERE column IS NOT NULL ORDER BY column
Distinct(rows, column, rank) ==
    LET S == {Val(rows[i][column]) : i \in {j \in 1..Len(rows) : rows[j][column] # None}}
    IN  SortedSeq(S, [x \in S |-> IF rank = "int" THEN IntRank(x) ELSE StrRank(x)])

---------------------------------------------------------------------------
\* AuctionBase: the connection

\* get_connection that hands out the connection it holds without looking at the
\* store path first.
get_connection_held_first(n) ==
    IF conn[n] THEN [ret |-> TRUE, conn |-> TRUE, nopen |-> nopen[n]]
    ELSE IF ~exists[n] THEN [ret |-> FALSE, conn |-> conn[n], nopen |-> nopen[n]]
    ELSE [ret |-> TRUE, conn |-> TRUE, nopen |-> nopen[n] + 1]

\* get_connection that opens the connection but hands it out only from the next
\* call on.
get_connection_opens_late(n) ==
    IF ~exists[n] THEN [ret |-> FALSE, conn |-> conn[n], nopen |-> nopen[n]]
    ELSE IF ~conn[n] THEN [ret |-> FALSE, conn |-> TRUE, nopen |-> nopen[n] + 1]
    ELSE [ret |-> TRUE, conn |-> TRUE, nopen |-> nopen[n]]

\* get_connection that connects on every call.
get_connection_always_opens(n) ==
    IF ~exists[n] THEN [ret |-> FALSE, conn |-> conn[n], nopen |-> nopen[n]]
    ELSE [ret |-> TRUE, conn |-> TRUE, nopen |-> nopen[n] + 1]

\* get_connection that closes the connection it holds when the store is gone.
get_connection_closes_when_gone(n) ==
    IF ~exists[n]
    THEN [ret |-> FALSE, conn |-> FALSE, nopen |-> IF conn[n] THEN nopen[n] - 1 ELSE nopen[n]]
    ELSE IF ~conn[n]
         THEN [ret |-> TRUE, conn |-> TRUE, nopen |-> nopen[n] + 1]
         ELSE [ret |-> TRUE, conn |-> TRUE, nopen |-> nopen[n]]

\* AuctionBase.get_connection while the adapter holds a connection or the
\* store exists: ret is whether a connection (not None) is returned, conn and
\* nopen the adapter's state afterwards.
get_connection(n) ==
    IF ~exists[n]
    THEN [ret |-> FALSE, conn |-> conn[n], nopen |-> nopen[n]]
    ELSE IF ~conn[n]
         THEN [ret |-> TRUE, conn |-> TRUE, nopen |-> nopen[n] + 1]
         ELSE [ret |-> TRUE, conn |-> TRUE, nopen |-> nopen[n]]

\* close_connection that leaves the connection alone when the store is gone.
close_connection_unless_store_gone(n) ==
    IF conn[n] /\ exists[n]
    THEN [conn |-> FALSE, nopen |-> nopen[n] - 1]
    ELSE [conn |-> conn[n], nopen |-> nopen[n]]

\* AuctionBase.close_connection
close_connection(n) ==
    IF conn[n]
    THEN [conn |-> FALSE, nopen |-> nopen[n] - 1]
    ELSE [conn |-> conn[n], nopen |-> nopen[n]]

---------------------------------------------------------------------------
\* AdalexAuction

\* The Adalex WHERE clause in which a search text without words matches no row.
AdalexAuction_where_no_words_no_rows(r, q) ==
    /\ (q.year # None => SqlEq(r.year, Val(q.year)))
    /\ (Truthy(q.metals) => SqlIn(r.metal, Val(q.metals)))
    /\ (Truthy(q.categories) => SqlIn(r.category, Val(q.categories)))
    /\ (Truthy(q.search_title) =>
           LET search_words == improve_search_query(Val(q.search_title))
           IN  search_words # <<>> /\ AllWordsMatch(r.title, search_words))
    /\ (Truthy(q.search_description) =>
           LET search_words == improve_search_query(Val(q.search_description))
           IN  search_words # <<>> /\ AllWordsMatch(r.description, search_words))

\* The WHERE clause AdalexAuction.get_filtered_data builds, on one row.
AdalexAuction_get_filtered_data_where(r, q) ==
    /\ (q.year # None => SqlEq(r.year, Val(q.year)))
    /\ (Truthy(q.metals) => SqlIn(r.metal, Val(q.metals)))
    /\ (Truthy(q.categories) => SqlIn(r.category, Val(q.categories)))
    /\ (Truthy(q.search_title) =>
           LET search_words == improve_search_query(Val(q.search_title))
           IN  search_words # <<>> => AllWordsMatch(r.title, search_words))
    /\ (Truthy(q.search_description) =>
           LET search_words == improve_search_query(Val(q.search_description))
           IN  search_words # <<>> => AllWordsMatch(r.description, search_words))

\* The WHERE clause AdalexAuction.get_total_count builds, on one row.
AdalexAuction_get_total_count_where(r, q) ==
    /\ (q.year # None => SqlEq(r.year, Val(q.year)))
    /\ (Truthy(q.metals) => SqlIn(r.metal, Val(q.metals)))
    /\ (Truthy(q.categories) => SqlIn(r.category, Val(q.categories)))
    /\ (Truthy(q.search_title) =>
           LET search_words == improve_search_query(Val(q.search_title))
           IN  search_words # <<>> => AllWordsMatch(r.title, search_words))
    /\ (Truthy(q.search_description) =>
           LET search_words == improve_search_query(Val(q.search_description))
           IN  search_words # <<>> => AllWordsMatch(r.description, search_words))

\* AdalexAuction.get_filtered_data.  kwcat: the caller passes the keywords
\* catalogue_type= and catalogue_number=, which the signature does not have.
AdalexAuction_get_filtered_data(q, kwcat, limit, offset) ==
    IF kwcat THEN Raise("TypeError")
    ELSE IF ~get_connection(Adalex).ret THEN Ok(<<>>)
    ELSE Ok(LimitOffset(
             SelectSeq(db[Adalex], LAMBDA r : AdalexAuction_get_filtered_data_where(r, q)),
             limit, offset))

\* AdalexAuction.get_total_count
AdalexAuction_get_total_count(q, kwcat) ==
    IF kwcat THEN Raise("TypeError")
    ELSE IF ~get_connection(Adalex).ret THEN Ok(0)
    ELSE Ok(Len(SelectSeq(db[Adalex], LAMBDA r : AdalexAuction_get_total_count_where(r, q))))

\* get_filter_options of an adapter over its table (Adalex and Aurora run the
\* same three SELECT DISTINCT queries).
FilterOptionsOf(rows) ==
    [metals |-> Distinct(rows, "metal", "str"),
     years |-> Distinct(rows, "year", "int"),
     categories |-> Distinct(rows, "category", "str")]

EmptyOptions == [metals |-> <<>>, years |-> <<>>, categories |-> <<>>]

\* AdalexAuction.get_filter_options
AdalexAuction_get_filter_options ==
    IF ~get_connection(Adalex).ret THEN Ok(EmptyOptions)
    ELSE Ok(FilterOptionsOf(db[Adalex]))

---------------------------------------------------------------------------
\* AuroraAuction

\* The Aurora WHERE clause with the catalogue condition added to the regular
\* filters instead of replacing them.
AuroraAuction_where_catalogue_added(r, q) ==
    /\ (TruthyStr(q.catalogue_type) /\ TruthyStr(q.catalogue_number) =>
           SqlEq(ColumnValue(r, catalogue_column(Val(q.catalogue_type))),
                 Val(q.catalogue_number)))
    /\ (q.year # None => SqlEq(r.year, Val(q.year)))
    /\ (Truthy(q.metals) => SqlIn(r.metal, Val(q.metals)))
    /\ (Truthy(q.categories) => SqlIn(r.category, Val(q.categories)))
    /\ (Truthy(q.search_title) =>
           AllWordsMatch(r.title, improve_search_query(Val(q.search_title))))
    /\ (Truthy(q.search_description) =>
           AllWordsMatch(r.description, improve_search_query(Val(q.search_description))))

\* The WHERE clause AuroraAuction.get_filtered_data builds, on one row.
AuroraAuction_get_filtered_data_where(r, q) ==
    IF TruthyStr(q.catalogue_type) /\ TruthyStr(q.catalogue_number)
    THEN SqlEq(ColumnValue(r, catalogue_column(Val(q.catalogue_type))),
               Val(q.catalogue_number))
    ELSE /\ (q.year # None => SqlEq(r.year, Val(q.year)))
         /\ (Truthy(q.metals) => SqlIn(r.metal, Val(q.metals)))
         /\ (Truthy(q.categories) => SqlIn(r.category, Val(q.categories)))
         /\ (Truthy(q.search_title) =>
                LET search_words == improve_search_query(Val(q.search_title))
                IN  search_words # <<>> => AllWordsMatch(r.title, search_words))
         /\ (Truthy(q.search_description) =>
                LET search_words == improve_search_query(Val(q.search_description))
                IN  search_words # <<>> => AllWordsMatch(r.description, search_words))

\* The Aurora count clause without the metal filter.
AuroraAuction_count_where_no_metals(r, q) ==
    IF TruthyStr(q.catalogue_type) /\ TruthyStr(q.catalogue_number)
    THEN SqlEq(ColumnValue(r, catalogue_column(Val(q.catalogue_type))),
               Val(q.catalogue_number))
    ELSE /\ (q.year # None => SqlEq(r.year, Val(q.year)))
         /\ (Truthy(q.categories) => SqlIn(r.category, Val(q.categories)))
         /\ (Truthy(q.search_title) =>
                AllWordsMatch(r.title, improve_search_query(Val(q.search_title))))
         /\ (Truthy(q.search_description) =>
                AllWordsMatch(r.description, improve_search_query(Val(q.search_description))))

\* The WHERE clause AuroraAuction.get_total_count builds, on one row.
AuroraAuction_get_total_count_where(r, q) ==
    IF TruthyStr(q.catalogue_type) /\ TruthyStr(q.catalogue_number)
    THEN SqlEq(ColumnValue(r, catalogue_column(Val(q.catalogue_type))),
               Val(q.catalogue_number))
    ELSE /\ (q.year # None => SqlEq(r.year, Val(q.year)))
         /\ (Truthy(q.metals) => SqlIn(r.metal, Val(q.metals)))
         /\ (Truthy(q.categories) => SqlIn(r.category, Val(q.categories)))
         /\ (Truthy(q.search_title) =>
                LET search_words == improve_search_query(Val(q.search_title))
                IN  search_words # <<>> => AllWordsMatch(r.title, search_words))
         /\ (Truthy(q.search_description) =>
                LET search_words == improve_search_query(Val(q.search_description))
                IN  search_words # <<>> => AllWordsMatch(r.description, search_words))

\* The query names a catalogue column table lots of adapter n does not have:
\* SQLite refuses the statement and pandas raises DatabaseError.
NoSuchColumn(n, q) ==
    /\ TruthyStr(q.catalogue_type) /\ TruthyStr(q.catalogue_number)
    /\ catalogue_column(Val(q.catalogue_type)) \notin columns[n]

\* AuroraAuction.get_filtered_data
AuroraAuction_get_filtered_data(q, limit, offset) ==
    IF ~get_connection(Aurora).ret THEN Ok(<<>>)
    ELSE IF NoSuchColumn(Aurora, q) THEN Raise("DatabaseError")
    ELSE Ok(LimitOffset(
             SelectSeq(db[Aurora], LAMBDA r : AuroraAuction_get_filtered_data_where(r, q)),
             limit, offset))

\* AuroraAuction.get_total_count
AuroraAuction_get_total_count(q) ==
    IF ~get_connection(Aurora).ret THEN Ok(0)
    ELSE IF NoSuchColumn(Aurora, q) THEN Raise("DatabaseError")
    ELSE Ok(Len(SelectSeq(db[Aurora], LAMBDA r : AuroraAuction_get_total_count_where(r, q))))

\* AuroraAuction.get_filter_options
AuroraAuction_get_filter_options ==
    IF ~get_connection(Aurora).ret THEN Ok(EmptyOptions)
    ELSE Ok(FilterOptionsOf(db[Aurora]))

---------------------------------------------------------------------------
\* RedkieMonetyAuction (redkie_monety_auction.py): the adapter interface as the
\* specification's section 4.2 and 7 describe it.

\* The regular filters of section 4.2, on one row.
RedkieMonetyAuction_where(r, q) ==
    IF TruthyStr(q.catalogue_type) /\ TruthyStr(q.catalogue_number)
       /\ catalogue_column(Val(q.catalogue_type)) \in columns[RedkieMonety]
    THEN SqlEq(ColumnValue(r, catalogue_column(Val(q.catalogue_type))),
               Val(q.catalogue_number))
    ELSE /\ (q.year # None => SqlEq(r.year, Val(q.year)))
         /\ (Truthy(q.metals) => SqlIn(r.metal, Val(q.metals)))
         /\ (Truthy(q.categories) => SqlIn(r.category, Val(q.categories)))
         /\ (Truthy(q.search_title) =>
                AllWordsMatch(r.title, improve_search_query(Val(q.search_title))))
         /\ (Truthy(q.search_description) =>
                AllWordsMatch(r.description, improve_search_query(Val(q.search_description))))

RedkieMonetyAuction_get_filtered_data(q, limit, offset) ==
    IF ~get_connection(RedkieMonety).ret THEN Ok(<<>>)
    ELSE Ok(LimitOffset(
             SelectSeq(db[RedkieMonety], LAMBDA r : RedkieMonetyAuction_where(r, q)),
             limit, offset))

RedkieMonetyAuction_get_total_count(q) ==
    IF ~get_connection(RedkieMonety).ret THEN Ok(0)
    ELSE Ok(Len(SelectSeq(db[RedkieMonety], LAMBDA r : RedkieMonetyAuction_where(r, q))))

RedkieMonetyAuction_get_filter_options ==
    IF ~get_connection(RedkieMonety).ret THEN Ok(EmptyOptions)
    ELSE Ok(FilterOptionsOf(db[RedkieMonety]))

RedkieMonetyAuction_get_catalogue_numbers(catalogue_type) ==
    IF ~get_connection(RedkieMonety).ret
       \/ catalogue_column(catalogue_type) \notin columns[RedkieMonety]
    THEN Ok(<<>>)
    ELSE Ok(Distinct(db[RedkieMonety], catalogue_column(catalogue_type), "str"))

---------------------------------------------------------------------------
\* Method dispatch on the adapter object self.auctions[n]

auction_get_filtered_data(n, q, kwcat, limit, offset) ==
    CASE n = Adalex -> AdalexAuction_get_filtered_data(q, kwcat, limit, offset)
      [] n = Aurora -> AuroraAuction_get_filtered_data(q, limit, offset)
      [] n = RedkieMonety -> RedkieMonetyAuction_get_filtered_data(q, limit, offset)

auction_get_total_count(n, q, kwcat) ==
    CASE n = Adalex -> AdalexAuction_get_total_count(q, kwcat)
      [] n = Aurora -> AuroraAuction_get_total_count(q)
      [] n = RedkieMonety -> RedkieMonetyAuction_get_total_count(q)

auction_get_filter_options(n) ==
    CASE n = Adalex -> AdalexAuction_get_filter_options
      [] n = Aurora -> AuroraAuction_get_filter_options
      [] n = RedkieMonety -> RedkieMonetyAuction_get_filter_options

\* AdalexAuction and AuroraAuction define no get_catalogue_numbers.
auction_get_catalogue_numbers(n, catalogue_type) ==
    CASE n = Adalex -> Raise("AttributeError")
      [] n = Aurora -> Raise("AttributeError")
      [] n = RedkieMonety -> RedkieMonetyAuction_get_catalogue_numbers(catalogue_type)

---------------------------------------------------------------------------
\* AuctionFactory

\* AuctionFactory._get_available_auctions on freshly built adapters (conn is
\* None): the names whose get_connection() is not None, in registry order.
\* reachable[n] is os.path.exists of n's store while __init__ runs.
_get_available_auctions(reachable) == SelectSeq(auctions, LAMBDA n : reachable[n])

\* `auction and auction.get_connection()` for an entry of selected_auctions
Participates(name) == name \in Registered /\ get_connection(name).ret

\* df['auction_name'] = auction_name
Tagged(rows, name) == [i \in 1..Len(rows) |-> [auction_name |-> name, lot |-> rows[i]]]

RECURSIVE fetch_all(_, _)
\* The loop of get_combined_data: pd.concat of the non-empty tagged frames, or
\* the exception of the first adapter call that raises.
fetch_all(selected_auctions, q) ==
    IF selected_auctions = <<>> THEN Ok(<<>>)
    ELSE LET auction_name == Head(selected_auctions)
             df == IF Participates(auction_name)
                   THEN auction_get_filtered_data(auction_name, q, TRUE, None, 0)
                   ELSE Ok(<<>>)
             rest == fetch_all(Tail(selected_auctions), q)
         IN  IF Raised(df) THEN df
             ELSE IF Raised(rest) THEN rest
             ELSE Ok(Tagged(df.value, auction_name) \o rest.value)

\* The column DataFrame.sort_values sorts by, and its direction.
SortColumn(r, sort_by, currency) ==
    CASE sort_by \in {"price_high", "price_low"} ->
             (CASE currency = "RUB" -> r.lot.final_price_rub
                [] currency = "USD" -> r.lot.final_price_usd
                [] currency = "EUR" -> r.lot.final_price_eur)
      [] sort_by \in {"date_recent", "date_old"} -> r.lot.close_date
      [] sort_by \in {"year_desc", "year_asc"} -> r.lot.year

Ascending(sort_by) == sort_by \in {"price_low", "date_old", "year_asc"}

\* Row j comes before row i in DataFrame.sort_values(column, ascending=...)
\* with the defaults kind='quicksort' (insertion sort, hence stable, on the
\* frames of this model) and na_position='last'.
Precedes(keys, j, i, ascending) ==
    IF keys[i] = None
    THEN keys[j] # None \/ j < i
    ELSE /\ keys[j] # None
         /\ \/ (IF ascending THEN Val(keys[j]) < Val(keys[i]) ELSE Val(keys[j]) > Val(keys[i]))
            \/ (Val(keys[j]) = Val(keys[i]) /\ j < i)

\* sort_values that leaves the frame in arrival order.
sort_values_arrival_order(rows, keys, ascending) == rows

\* sort_values that takes a null for the smallest value: first when ascending,
\* last when descending (the order SQLite's ORDER BY gives).
sort_values_nulls_smallest(rows, keys, ascending) ==
    LET n == Len(rows)
        before(j, i) ==
            IF keys[i] = None /\ keys[j] = None THEN j < i
            ELSE IF keys[j] = None THEN ascending
            ELSE IF keys[i] = None THEN ~ascending
            ELSE \/ (IF ascending THEN Val(keys[j]) < Val(keys[i])
                                   ELSE Val(keys[j]) > Val(keys[i]))
                 \/ (Val(keys[j]) = Val(keys[i]) /\ j < i)
        pos == [i \in 1..n |-> 1 + Cardinality({j \in 1..n : j # i /\ before(j, i)})]
    IN  [p \in 1..n |-> rows[CHOOSE i \in 1..n : pos[i] = p]]

sort_values(rows, keys, ascending) ==
    LET n == Len(rows)
        pos == [i \in 1..n |-> 1 + Cardinality({j \in 1..n : j # i /\ Precedes(keys, j, i, ascending)})]
    IN  [p \in 1..n |-> rows[CHOOSE i \in 1..n : pos[i] = p]]

SortKeys == {"price_high", "price_low", "date_recent", "date_old", "year_desc", "year_asc"}

\* combined_df.iloc[offset:offset + limit]
iloc(rows, offset, limit) == SubSeq(rows, offset + 1, Min(Len(rows), offset + limit))

\* get_combined_data with an else branch that sorts by year, descending.
get_combined_data_else_year_desc(selected_auctions, q, currency, sort_by, limit, offset) ==
    LET all_data == fetch_all(selected_auctions, q)
    IN  IF Raised(all_data) THEN all_data
        ELSE IF all_data.value = <<>> THEN Ok(<<>>)
        ELSE LET combined_df == all_data.value
                 by == IF sort_by \in SortKeys THEN sort_by ELSE "year_desc"
                 sorted == sort_values(combined_df,
                               [i \in 1..Len(combined_df) |->
                                   SortColumn(combined_df[i], by, currency)],
                               Ascending(by))
             IN  IF limit = None THEN Raise("TypeError")
                 ELSE Ok(iloc(sorted, offset, Val(limit)))

\* AuctionFactory.get_combined_data
get_combined_data(selected_auctions, q, currency, sort_by, limit, offset) ==
    LET all_data == fetch_all(selected_auctions, q)
    IN  IF Raised(all_data) THEN all_data
        ELSE IF all_data.value = <<>> THEN Ok(<<>>)
        ELSE LET combined_df == all_data.value
                 sorted == IF sort_by \in SortKeys
                           THEN sort_values(combined_df,
                                    [i \in 1..Len(combined_df) |->
                                        SortColumn(combined_df[i], sort_by, currency)],
                                    Ascending(sort_by))
                           ELSE combined_df
             IN  IF limit = None THEN Raise("TypeError")
                 ELSE Ok(iloc(sorted, offset, Val(limit)))

RECURSIVE get_combined_total_count(_, _)
\* AuctionFactory.get_combined_total_count
get_combined_total_count(selected_auctions, q) ==
    IF selected_auctions = <<>> THEN Ok(0)
    ELSE LET auction_name == Head(selected_auctions)
             count == IF Participates(auction_name)
                      THEN auction_get_total_count(auction_name, q, TRUE)
                      ELSE Ok(0)
             rest == get_combined_total_count(Tail(selected_auctions), q)
         IN  IF Raised(count) THEN count
             ELSE IF Raised(rest) THEN rest
             ELSE Ok(count.value + rest.value)

\* The values of one option list of the first selected adapter only.
AllOptions_first_only(selected_auctions, key) ==
    UNION {{auction_get_filter_options(selected_auctions[i]).value[key][k] :
               k \in 1..Len(auction_get_filter_options(selected_auctions[i]).value[key])} :
           i \in {j \in 1..Min(1, Len(selected_auctions)) : Participates(selected_auctions[j])}}

\* The values of one option list over the selected, participating adapters.
AllOptions(selected_auctions, key) ==
    UNION {{auction_get_filter_options(selected_auctions[i]).value[key][k] :
               k \in 1..Len(auction_get_filter_options(selected_auctions[i]).value[key])} :
           i \in {j \in 1..Len(selected_auctions) : Participates(selected_auctions[j])}}

\* AuctionFactory.get_combined_filter_options
get_combined_filter_options(selected_auctions) ==
    LET all_metals == AllOptions(selected_auctions, "metals")
        all_years == AllOptions(selected_auctions, "years")
        all_categories == AllOptions(selected_auctions, "categories")
    IN  Ok([metals |-> SortedSeq(all_metals, [x \in all_metals |-> StrRank(x)]),
            years |-> SortedSeq(all_years, [x \in all_years |-> IntRank(x)]),
            categories |-> SortedSeq(all_categories, [x \in all_categories |-> StrRank(x)])])

RECURSIVE all_numbers(_, _)
\* The loop of get_available_catalogue_numbers: the set of numbers, or the
\* exception of the first adapter call that raises.
all_numbers(selected_auctions, catalogue_type) ==
    IF selected_auctions = <<>> THEN Ok({})
    ELSE LET auction_name == Head(selected_auctions)
             numbers == IF Participates(auction_name)
                        THEN auction_get_catalogue_numbers(auction_name, catalogue_type)
                        ELSE Ok(<<>>)
             rest == all_numbers(Tail(selected_auctions), catalogue_type)
         IN  IF Raised(numbers) THEN numbers
             ELSE IF Raised(rest) THEN rest
             ELSE Ok({numbers.value[k] : k \in 1..Len(numbers.value)} \cup rest.value)

\* AuctionFactory.get_available_catalogue_numbers
get_available_catalogue_numbers(selected_auctions, catalogue_type) ==
    LET numbers == all_numbers(selected_auctions, catalogue_type)
    IN  IF Raised(numbers) THEN numbers
        ELSE Ok(SortedSeq(numbers.value, [x \in numbers.value |-> StrRank(x)]))

---------------------------------------------------------------------------
\* The effect of a call on the adapters' connections

\* The index of the first entry of selected_auctions whose adapter call raises
\* (the loop stops there), or the length of the list.
LoopEnd(selected_auctions, results) ==
    LET R == {i \in 1..Len(selected_auctions) :
                 Participates(selected_auctions[i]) /\ Raised(results[selected_auctions[i]])}
    IN  IF R = {} THEN Len(selected_auctions) ELSE CHOOSE i \in R : \A j \in R : i <= j

\* The adapters a loop over selected_auctions calls get_connection on.
Touched(selected_auctions, results) ==
    {selected_auctions[i] : i \in 1..LoopEnd(selected_auctions, results)} \cap Registered

\* get_connection has run on every adapter of T.
Connect(T) ==
    /\ conn' = [n \in Registered |-> IF n \in T THEN get_connection(n).conn ELSE conn[n]]
    /\ nopen' = [n \in Registered |-> IF n \in T THEN get_connection(n).nopen ELSE nopen[n]]

Step(op, args, result) == last' = [op |-> op, args |-> args, result |-> result]

---------------------------------------------------------------------------
\* Operations of the aggregator

GetCombinedData(selected_auctions, q, currency, sort_by, limit, offset) ==
    /\ Step("get_combined_data",
            [selected_auctions |-> selected_auctions, q |-> q, currency |-> currency,
             sort_by |-> sort_by, limit |-> limit, offset |-> offset],
            get_combined_data(selected_auctions, q, currency, sort_by, limit, offset))
    /\ Connect(Touched(selected_auctions,
                       [n \in Registered |-> auction_get_filtered_data(n, q, TRUE, None, 0)]))
    /\ UNCHANGED <<exists, available_auctions, db, columns, request>>

GetCombinedTotalCount(selected_auctions, q) ==
    /\ Step("get_combined_total_count",
            [selected_auctions |-> selected_auctions, q |-> q],
            get_combined_total_count(selected_auctions, q))
    /\ Connect(Touched(selected_auctions, [n \in Registered |-> auction_get_total_count(n, q, TRUE)]))
    /\ UNCHANGED <<exists, available_auctions, db, columns, request>>

GetCombinedFilterOptions(selected_auctions) ==
    /\ Step("get_combined_filter_options",
            [selected_auctions |-> selected_auctions],
            get_combined_filter_options(selected_auctions))
    /\ Connect(Touched(selected_auctions, [n \in Registered |-> auction_get_filter_options(n)]))
    /\ UNCHANGED <<exists, available_auctions, db, columns, request>>

GetAvailableCatalogueNumbers(selected_auctions, catalogue_type) ==
    /\ Step("get_available_catalogue_numbers",
            [selected_auctions |-> selected_auctions, catalogue_type |-> catalogue_type],
            get_available_catalogue_numbers(selected_auctions, catalogue_type))
    /\ Connect(Touched(selected_auctions,
                       [n \in Registered |-> auction_get_catalogue_numbers(n, catalogue_type)]))
    /\ UNCHANGED <<exists, available_auctions, db, columns, request>>

\* close_all_connections that also recomputes available_auctions.
CloseAllConnections_recomputes ==
    /\ Step("close_all_connections", <<>>, Ok(<<>>))
    /\ conn' = [n \in Registered |-> close_connection(n).conn]
    /\ nopen' = [n \in Registered |-> close_connection(n).nopen]
    /\ available_auctions' = _get_available_auctions(exists)
    /\ UNCHANGED <<exists, db, columns, request>>

\* AuctionFactory.close_all_connections
CloseAllConnections ==
    /\ Step("close_all_connections", <<>>, Ok(<<>>))
    /\ conn' = [n \in Registered |-> close_connection(n).conn]
    /\ nopen' = [n \in Registered |-> close_connection(n).nopen]
    /\ UNCHANGED <<exists, available_auctions, db, columns, request>>

---------------------------------------------------------------------------
\* Operations on one adapter, reached through AuctionFactory.get_auction(n).
\* The adapter's own signature decides the keywords: no catalogue keywords on
\* Adalex.

AdapterGetFilteredData(n, q, limit, offset) ==
    /\ Step("get_filtered_data", [auction |-> n, q |-> q, limit |-> limit, offset |-> offset],
            auction_get_filtered_data(n, q, FALSE, limit, offset))
    /\ Connect({n})
    /\ UNCHANGED <<exists, available_auctions, db, columns, request>>

AdapterGetTotalCount(n, q) ==
    /\ Step("get_total_count", [auction |-> n, q |-> q], auction_get_total_count(n, q, FALSE))
    /\ Connect({n})
    /\ UNCHANGED <<exists, available_auctions, db, columns, request>>

AdapterGetFilterOptions(n) ==
    /\ Step("get_filter_options", [auction |-> n], auction_get_filter_options(n))
    /\ Connect({n})
    /\ UNCHANGED <<exists, available_auctions, db, columns, request>>

---------------------------------------------------------------------------
\* The environment: a store file appears or disappears

StoreAppears(n) ==
    /\ ~exists[n]
    /\ exists' = [exists EXCEPT ![n] = TRUE]
    /\ Step("store_appears", [auction |-> n], Ok(<<>>))
    /\ UNCHANGED <<conn, nopen, available_auctions, db, columns, request>>

StoreDisappears(n) ==
    /\ exists[n]
    /\ exists' = [exists EXCEPT ![n] = FALSE]
    /\ Step("store_disappears", [auction |-> n], Ok(<<>>))
    /\ UNCHANGED <<conn, nopen, available_auctions, db, columns, request>>

---------------------------------------------------------------------------
\* Rows and queries

Row(year, metal, category, title, description, close_date, price, catalogue) ==
    [year |-> year, metal |-> metal, category |-> category, title |-> title,
     description |-> description, close_date |-> close_date,
     final_price_rub |-> price, final_price_usd |-> price, final_price_eur |-> price,
     catalogue_bitkin |-> catalogue]

Query(year, metals, categories, search_title, search_description, catalogue_type, catalogue_number) ==
    [year |-> year, metals |-> metals, categories |-> categories,
     search_title |-> search_title, search_description |-> search_description,
     catalogue_type |-> catalogue_type, catalogue_number |-> catalogue_number]

\* Every parameter at its default None.
NoFilter == Query(None, None, None, None, None, None, None)

TitleAb == <<"A", "b">>
TextBa == <<"b", "a">>

BaseRow == Row(Some(1), Some("Ag"), Some("coin"), Some(TitleAb), Some(TextBa),
               Some(1), Some(1), None)

\* All sequences without repetition over a set of names.
RECURSIVE Orderings(_)
Orderings(S) ==
    {<<>>} \cup UNION {{<<x>> \o t : t \in Orderings(S \ {x})} : x \in S}

---------------------------------------------------------------------------
\* Spec: the aggregator and its adapters while store files come and go.

LifeRows ==
    [n \in Registered |->
        CASE n = Adalex -> <<BaseRow>>
          [] n = Aurora -> <<[BaseRow EXCEPT !.year = Some(2), !.catalogue_bitkin = Some("k1")],
                             [BaseRow EXCEPT !.year = None, !.metal = Some("Au")]>>
          [] n = RedkieMonety -> <<[BaseRow EXCEPT !.year = Some(2), !.category = Some("medal")]>>]

\* Every subset of the registered names, listed in registry order.
LifeSelections == {SelectSeq(auctions, LAMBDA n : n \in S) : S \in SUBSET Registered}

\* The query an adapter's own signature admits: no catalogue pair on Adalex.
OwnQuery(n, q) ==
    IF n = Adalex THEN [q EXCEPT !.catalogue_type = None, !.catalogue_number = None] ELSE q

Request(selected_auctions, q, currency, sort_by, limit, offset) ==
    [selected_auctions |-> selected_auctions, q |-> q, currency |-> currency,
     sort_by |-> sort_by, limit |-> limit, offset |-> offset]

\* The state AuctionFactory.__init__ leaves when the stores of reachable exist:
\* _get_available_auctions has opened a connection to each of them.
Constructed(reachable) ==
    /\ exists = reachable
    /\ conn = reachable
    /\ nopen = [n \in Registered |-> IF reachable[n] THEN 1 ELSE 0]
    /\ available_auctions = _get_available_auctions(reachable)
    /\ last = [op |-> "__init__", args |-> <<>>, result |-> Ok(<<>>)]

Init ==
    /\ \E reachable \in [Registered -> BOOLEAN] : Constructed(reachable)
    /\ columns = [n \in Registered |-> IF n = Adalex THEN {} ELSE {"catalogue_bitkin"}]
    /\ db = LifeRows
    /\ request = Request(<<>>, NoFilter, "RUB", "year_desc", Some(2), 0)

\* The queries put to one adapter: no filter, a year, a catalogue pair.
LifeQueries == {NoFilter, [NoFilter EXCEPT !.year = Some(2)],
                [NoFilter EXCEPT !.catalogue_type = Some("Bitkin"),
                                 !.catalogue_number = Some("k1")]}

Next ==
    \/ \E n \in Registered : StoreAppears(n)
    \/ \E n \in Registered : StoreDisappears(n)
    \/ CloseAllConnections
    \/ \E sel \in LifeSelections :
          GetCombinedData(sel, request.q, request.currency, request.sort_by,
                          request.limit, request.offset)
    \/ \E sel \in LifeSelections : GetCombinedTotalCount(sel, request.q)
    \/ \E sel \in LifeSelections : GetCombinedFilterOptions(sel)
    \/ \E sel \in LifeSelections : GetAvailableCatalogueNumbers(sel, "Bitkin")
    \/ \E n \in Registered, q \in LifeQueries :
          AdapterGetFilteredData(n, OwnQuery(n, q), request.limit, request.offset)
    \/ \E n \in Registered, q \in LifeQueries : AdapterGetTotalCount(n, OwnQuery(n, q))
    \/ \E n \in Registered : AdapterGetFilterOptions(n)

Spec == Init /\ [][Next]_vars

---------------------------------------------------------------------------
\* Bounds of the query specifications below

MaxRows == 2
MaxPage == 2

RECURSIVE Tables(_, _)
\* The tables of at most k rows over a set of rows.
Tables(pool, k) ==
    IF k = 0 THEN {<<>>}
    ELSE LET shorter == Tables(pool, k - 1)
         IN  shorter \cup {Append(t, r) : t \in shorter, r \in pool}

\* limit and offset of a request: no limit from the start, or a page.
Pages == {<<None, 0>>} \cup {<<Some(l), o>> : l \in 1..MaxPage, o \in 0..MaxPage}

AllReachable == [n \in Registered |-> TRUE]

---------------------------------------------------------------------------
\* SpecAdapter: one adapter over a drawn table, queried with a drawn query.

\* Rows that differ from BaseRow in one column.
AdapterPool ==
    {BaseRow,
     [BaseRow EXCEPT !.year = None], [BaseRow EXCEPT !.year = Some(2)],
     [BaseRow EXCEPT !.metal = Some("Au")], [BaseRow EXCEPT !.category = Some("medal")],
     [BaseRow EXCEPT !.title = None], [BaseRow EXCEPT !.description = Some(<<"b", "b">>)],
     [BaseRow EXCEPT !.catalogue_bitkin = Some("k1")],
     [BaseRow EXCEPT !.catalogue_bitkin = Some("k2")]}

\* The regular filters: every parameter at None, or one of them set.
RegularQueries ==
    {NoFilter,
     [NoFilter EXCEPT !.year = Some(1)], [NoFilter EXCEPT !.year = Some(2)],
     [NoFilter EXCEPT !.metals = Some(<<>>)], [NoFilter EXCEPT !.metals = Some(<<"Ag">>)],
     [NoFilter EXCEPT !.categories = Some(<<"coin", "medal">>)],
     [NoFilter EXCEPT !.categories = Some(<<"medal">>)],
     [NoFilter EXCEPT !.search_title = Some(<<>>)],
     [NoFilter EXCEPT !.search_title = Some(<<"a", "B">>)],
     [NoFilter EXCEPT !.search_description = Some(<<"b", "a", " ", "b">>)]}

CatalogueTypes == {None, Some(""), Some("Bitkin")}
CatalogueNumbers == {None, Some(""), Some("k1")}

AdapterQueries(n) ==
    IF n = Adalex THEN RegularQueries
    ELSE {[q EXCEPT !.catalogue_type = t, !.catalogue_number = c] :
             q \in RegularQueries, t \in CatalogueTypes, c \in CatalogueNumbers}

InitAdapter ==
    /\ Constructed(AllReachable)
    /\ \E n \in {Adalex, Aurora} :
          /\ columns \in {[m \in Registered |-> IF m = n THEN c ELSE {}] :
                             c \in SUBSET {"catalogue_bitkin"}}
          /\ db \in {[m \in Registered |-> IF m = n THEN t ELSE <<>>] :
                        t \in Tables({r \in AdapterPool :
                                         r.catalogue_bitkin # None
                                            => "catalogue_bitkin" \in columns[n]},
                                     MaxRows)}
          /\ request \in {Request(<<n>>, q, "RUB", "year_desc", None, 0) :
                             q \in AdapterQueries(n)}

\* get_filtered_data is asked for everything (limit=None) or for one page.
NextAdapter ==
    \/ \E p \in {<<None, 0>>, <<Some(1), 1>>} :
          AdapterGetFilteredData(request.selected_auctions[1], request.q, p[1], p[2])
    \/ AdapterGetTotalCount(request.selected_auctions[1], request.q)

SpecAdapter == InitAdapter /\ [][NextAdapter]_vars

---------------------------------------------------------------------------
\* SpecAgg: the aggregator over drawn tables, asked for one drawn page.

YearValues == {None, Some(1), Some(2)}

AggPool == {[BaseRow EXCEPT !.year = y] : y \in YearValues}

\* The tables of Aurora and Redkie Monety: at most MaxRows rows in all.
AggTables ==
    {<<a, r>> \in Tables(AggPool, MaxRows) \X Tables(AggPool, MaxRows) :
        Len(a) + Len(r) <= MaxRows}

AggQueries == {NoFilter, [NoFilter EXCEPT !.year = Some(1)]}

\* The sort_by values asked for: the two year keys and a key the if/elif chain
\* of get_combined_data does not name.
AggSortKeys == {"year_desc", "year_asc", "lot_number"}

InitAgg ==
    /\ \E reachable \in {f \in [Registered -> BOOLEAN] : f[Aurora] /\ f[RedkieMonety]} :
          Constructed(reachable)
    /\ columns = [n \in Registered |-> IF n = Adalex THEN {} ELSE {"catalogue_bitkin"}]
    /\ db \in {[n \in Registered |->
                   CASE n = Adalex -> <<BaseRow>> [] n = Aurora -> t[1]
                     [] n = RedkieMonety -> t[2]] : t \in AggTables}
    /\ request \in {Request(sel, q, "RUB", sort_by, p[1], p[2]) :
                       sel \in Orderings(Registered), q \in AggQueries,
                       sort_by \in AggSortKeys, p \in Pages}

NextAgg ==
    \/ GetCombinedData(request.selected_auctions, request.q, request.currency,
                       request.sort_by, request.limit, request.offset)
    \/ GetCombinedTotalCount(request.selected_auctions, request.q)

SpecAgg == InitAgg /\ [][NextAgg]_vars

---------------------------------------------------------------------------
\* SpecText: the search normaliser on a drawn text.

MaxLen == 5

Alphabet == {" ", "\t", "A", "b", "ZH"}

RECURSIVE Texts(_)
\* The texts of at most k characters.
Texts(k) ==
    IF k = 0 THEN {<<>>}
    ELSE LET shorter == Texts(k - 1)
         IN  shorter \cup {Append(t, c) : t \in shorter, c \in Alphabet}

\* improve_search_query(query) is called.
ImproveSearchQuery(query) ==
    /\ Step("improve_search_query", [query |-> query], Ok(improve_search_query(query)))
    /\ UNCHANGED <<exists, conn, nopen, available_auctions, db, columns, request>>

InitText ==
    /\ Constructed(AllReachable)
    /\ columns = [n \in Registered |-> {}]
    /\ db = [n \in Registered |-> <<>>]
    /\ request \in {[query |-> t] : t \in Texts(MaxLen)}

NextText == ImproveSearchQuery(request.query)

SpecText == InitText /\ [][NextText]_vars

---------------------------------------------------------------------------
\* SpecSearch: one adapter over drawn titles and descriptions, searched with
\* drawn texts.

SearchPool ==
    {[BaseRow EXCEPT !.title = t, !.description = d] :
        t \in {None, Some(<<"A", "b">>), Some(<<"ZH", "b">>), Some(<<"A", "b", "b">>)},
        d \in {None, Some(<<"b", "a">>)}}

\* search_title: absent, empty, blank, two short tokens, a token in mixed case,
\* a non-ASCII token, a token with the LIKE wildcard _, two tokens.
SearchTitles ==
    {None, Some(<<>>), Some(<<" ">>), Some(<<"a", " ", "b">>), Some(<<"a", "B">>),
     Some(<<"zh", "b">>), Some(<<"b", "_">>), Some(<<"b", "b", " ", "A", "b">>)}

SearchDescriptions == {None, Some(<<"a">>), Some(<<"b", "a">>), Some(<<"a", "b">>)}

InitSearch ==
    /\ Constructed(AllReachable)
    /\ columns = [n \in Registered |-> {}]
    /\ \E n \in {Adalex, Aurora} :
          /\ db \in {[m \in Registered |-> IF m = n THEN t ELSE <<>>] :
                        t \in Tables(SearchPool, MaxRows)}
          /\ request \in {Request(<<n>>, [NoFilter EXCEPT !.search_title = t,
                                                          !.search_description = d],
                                  "RUB", "year_desc", None, 0) :
                             t \in SearchTitles, d \in SearchDescriptions}

NextSearch ==
    \/ AdapterGetFilteredData(request.selected_auctions[1], request.q, None, 0)
    \/ AdapterGetTotalCount(request.selected_auctions[1], request.q)

SpecSearch == InitSearch /\ [][NextSearch]_vars

---------------------------------------------------------------------------
\* SpecImages: the images of a drawn lot over a drawn directory listing.

\* The file names of the model in ascending order, and those *.jpg matches.
FileNames == <<"a.jpg", "b.jpg", "c.png">>
FileRank(f) == CHOOSE i \in 1..Len(FileNames) : FileNames[i] = f
Jpg == {"a.jpg", "b.jpg"}

\* os.path.isdir(image_dir): request.listing[d] is None when d is no directory,
\* else the set of the names in it.
isdir(image_dir) == image_dir \in DOMAIN request.listing /\ request.listing[image_dir] # None

\* sorted(Path(image_dir).glob("*.jpg")), each path as <<directory, name>>
sorted_glob_jpg(image_dir) ==
    LET images == Val(request.listing[image_dir]) \cap Jpg
        names == SortedSeq(images, [f \in images |-> FileRank(f)])
    IN  [i \in 1..Len(names) |-> <<image_dir, names[i]>>]

\* AdalexAuction.get_lot_images
AdalexAuction_get_lot_images(lot_data) ==
    IF ~TruthyStr(lot_data.image_dir) THEN Ok(<<>>)
    ELSE IF isdir(Val(lot_data.image_dir))
         THEN Ok(sorted_glob_jpg(Val(lot_data.image_dir)))
         ELSE Ok(<<>>)

\* AuroraAuction.get_lot_images
AuroraAuction_get_lot_images(lot_data) ==
    IF ~TruthyStr(lot_data.image_url) THEN Ok(<<>>) ELSE Ok(<<Val(lot_data.image_url)>>)

\* RedkieMonetyAuction.get_lot_images: a URL-backed source
RedkieMonetyAuction_get_lot_images(lot_data) ==
    IF ~TruthyStr(lot_data.image_url) THEN Ok(<<>>) ELSE Ok(<<Val(lot_data.image_url)>>)

\* get_lot_images that asks the Aurora adapter whatever the tag says.
get_lot_images_tag_ignored(lot_data) == AuroraAuction_get_lot_images(lot_data)

\* AuctionFactory.get_lot_images
get_lot_images(lot_data) ==
    LET auction_name == lot_data.auction_name
    IN  IF ~TruthyStr(auction_name) THEN Ok(<<>>)
        ELSE IF Val(auction_name) \in Registered
             THEN CASE Val(auction_name) = Adalex -> AdalexAuction_get_lot_images(lot_data)
                    [] Val(auction_name) = Aurora -> AuroraAuction_get_lot_images(lot_data)
                    [] Val(auction_name) = RedkieMonety ->
                           RedkieMonetyAuction_get_lot_images(lot_data)
             ELSE Ok(<<>>)

GetLotImages(lot_data) ==
    /\ Step("get_lot_images", [lot |-> lot_data], get_lot_images(lot_data))
    /\ UNCHANGED <<exists, conn, nopen, available_auctions, db, columns, request>>

\* A lot: its tag, its image_url and its image_dir, each absent, empty or set.
Lots ==
    [auction_name : {None, Some(""), Some("Sixbid"), Some(Adalex), Some(Aurora),
                     Some(RedkieMonety)},
     image_url : {None, Some(""), Some("u1")},
     image_dir : {None, Some(""), Some("d1"), Some("d2")}]

\* "d1" is no directory or a directory with some of the files; "d2" is none.
Listings ==
    {[d \in {"d1"} |-> l] :
        l \in {None} \cup {Some(F) : F \in SUBSET {FileNames[i] : i \in 1..Len(FileNames)}}}

InitImages ==
    /\ Constructed(AllReachable)
    /\ columns = [n \in Registered |-> {}]
    /\ db = [n \in Registered |-> <<>>]
    /\ request \in {[lot |-> l, listing |-> fs] : l \in Lots, fs \in Listings}

NextImages == GetLotImages(request.lot)

SpecImages == InitImages /\ [][NextImages]_vars

---------------------------------------------------------------------------
\* SpecNulls: the aggregator over drawn tables whose rows lack a year, a close
\* date or a price, asked for one drawn page under each of the six sort keys.

\* Rows with every sort key at 1, at 2, one of them null, all of them null.
NullsPool ==
    {BaseRow,
     [BaseRow EXCEPT !.year = Some(2), !.close_date = Some(2), !.final_price_rub = Some(2)],
     [BaseRow EXCEPT !.year = None],
     [BaseRow EXCEPT !.close_date = None],
     [BaseRow EXCEPT !.final_price_rub = None],
     [BaseRow EXCEPT !.year = None, !.close_date = None, !.final_price_rub = None]}

\* The tables of Aurora and Redkie Monety: at most MaxRows rows in all.
NullsTables ==
    {<<a, r>> \in Tables(NullsPool, MaxRows) \X Tables(NullsPool, MaxRows) :
        Len(a) + Len(r) <= MaxRows}

InitNulls ==
    /\ Constructed(AllReachable)
    /\ columns = [n \in Registered |-> IF n = Adalex THEN {} ELSE {"catalogue_bitkin"}]
    /\ db \in {[n \in Registered |->
                   CASE n = Adalex -> <<BaseRow>> [] n = Aurora -> t[1]
                     [] n = RedkieMonety -> t[2]] : t \in NullsTables}
    /\ request \in {Request(<<Aurora, RedkieMonety>>, NoFilter, "RUB", sort_by, p[1], p[2]) :
                       sort_by \in SortKeys, p \in Pages}

NextNulls ==
    GetCombinedData(request.selected_auctions, request.q, request.currency,
                    request.sort_by, request.limit, request.offset)

SpecNulls == InitNulls /\ [][NextNulls]_vars

---------------------------------------------------------------------------
\* Properties

FactoryOps == {"get_combined_data", "get_combined_total_count",
               "get_combined_filter_options", "get_available_catalogue_numbers"}
AdapterOps == {"get_filtered_data", "get_total_count", "get_filter_options"}

Range(seq) == {seq[i] : i \in 1..Len(seq)}
Without(selected_auctions, b) == SelectSeq(selected_auctions, LAMBDA n : n # b)

RECURSIVE Matching(_, _)
\* The matching rows of the selected sources that are registered and whose
\* store is there, each asked through its own get_total_count.
Matching(selected_auctions, q) ==
    IF selected_auctions = <<>> THEN 0
    ELSE LET n == Head(selected_auctions)
         IN  (IF n \in Registered /\ exists[n]
              THEN auction_get_total_count(n, OwnQuery(n, q), FALSE).value ELSE 0)
             + Matching(Tail(selected_auctions), q)

\* C1: no public operation of the aggregator raises to its caller.
C1_NoOperationRaises == last.op \in FactoryOps => ~Raised(last.result)

\* C2: on Adalex and on Aurora, get_total_count(spec) is the number of rows
\* get_filtered_data(spec, limit=None) returns; a statement SQLite refuses is
\* refused in both.
C2_CountEqualsRows ==
    /\ last.op = "get_total_count" =>
          LET rows == auction_get_filtered_data(last.args.auction, last.args.q, FALSE, None, 0)
          IN  /\ last.result.raised = rows.raised
              /\ ~Raised(rows) => last.result.value = Len(rows.value)
    /\ (last.op = "get_filtered_data" /\ last.args.limit = None) =>
          LET count == auction_get_total_count(last.args.auction, last.args.q, FALSE)
          IN  /\ last.result.raised = count.raised
              /\ ~Raised(count) => Len(last.result.value) = count.value

\* C2 witness: a count on Aurora under a title search that keeps one row of two.
C2_Witness ==
    /\ last.op = "get_total_count" /\ last.args.auction = Aurora
    /\ Truthy(last.args.q.search_title)
    /\ last.result = Ok(1) /\ Len(db[Aurora]) = 2

\* C3: with limit L > 0 and offset O >= 0, get_combined_data returns exactly
\* min(L, max(0, N - O)) records, N the matching rows of the selected available
\* sources.
C3_PageLength ==
    (last.op = "get_combined_data" /\ last.args.limit # None) =>
        /\ ~Raised(last.result)
        /\ Len(last.result.value) =
              Min(Val(last.args.limit),
                  Max(0, Matching(last.args.selected_auctions, last.args.q)
                         - last.args.offset))

\* C4: get_combined_total_count is the sum of get_total_count over the selected
\* registered sources whose store is reachable.
C4_TotalIsSum ==
    last.op = "get_combined_total_count" =>
        last.result = Ok(Matching(last.args.selected_auctions, last.args.q))

\* The latest aggregator call, which had b in its selection, gave what it gives
\* with b left out, and so it does for every query of LifeQueries.
SameWithout(b) ==
    LET a == last.args
    IN  /\ (last.op = "get_combined_data" /\ b \in Range(a.selected_auctions)) =>
              /\ last.result = get_combined_data(Without(a.selected_auctions, b), a.q,
                                   a.currency, a.sort_by, a.limit, a.offset)
              /\ \A q \in LifeQueries :
                    get_combined_data(a.selected_auctions, q, a.currency, a.sort_by,
                                      a.limit, a.offset)
                    = get_combined_data(Without(a.selected_auctions, b), q, a.currency,
                                        a.sort_by, a.limit, a.offset)
        /\ (last.op = "get_combined_total_count" /\ b \in Range(a.selected_auctions)) =>
              /\ last.result = get_combined_total_count(Without(a.selected_auctions, b), a.q)
              /\ \A q \in LifeQueries :
                    get_combined_total_count(a.selected_auctions, q)
                    = get_combined_total_count(Without(a.selected_auctions, b), q)
        /\ (last.op = "get_combined_filter_options" /\ b \in Range(a.selected_auctions)) =>
              last.result = get_combined_filter_options(Without(a.selected_auctions, b))

\* C5 as stated: while the store of B is unavailable, available_auctions does
\* not contain B and the aggregator answers [A, B] as it answers [A].
C5_Original ==
    \A b \in Registered :
        ~exists[b] => (b \notin Range(available_auctions) /\ SameWithout(b))

\* C5 amended: a source whose store is unavailable when the aggregator is
\* constructed is not in available_auctions, and while the store of B is
\* unavailable the aggregator answers [A, B] as it answers [A].
C5_Degraded ==
    \A b \in Registered :
        ~exists[b] =>
            /\ last.op = "__init__" => b \notin Range(available_auctions)
            /\ SameWithout(b)

\* C5 witness: a page of Redkie Monety rows was returned for a selection that
\* also names Aurora, whose store is gone while its connection is still held.
C5_Witness ==
    /\ last.op = "get_combined_data"
    /\ last.args.selected_auctions = <<Aurora, RedkieMonety>>
    /\ ~exists[Aurora] /\ conn[Aurora] /\ Aurora \in Range(available_auctions)
    /\ ~Raised(last.result) /\ Len(last.result.value) = 1

\* C6: with its store missing, an adapter's get_filtered_data returns no rows,
\* get_total_count 0 and get_filter_options three empty lists.
C6_MissingStoreDefaults ==
    (last.op \in AdapterOps /\ ~exists[last.args.auction]) =>
        last.result = (CASE last.op = "get_filtered_data" -> Ok(<<>>)
                         [] last.op = "get_total_count" -> Ok(0)
                         [] last.op = "get_filter_options" -> Ok(EmptyOptions))

\* C6 witness: Aurora was asked for its rows after its store disappeared, with
\* the connection opened earlier still held and rows in the table.
C6_Witness ==
    /\ last.op = "get_filtered_data" /\ last.args.auction = Aurora
    /\ last.args.q # NoFilter
    /\ ~exists[Aurora] /\ conn[Aurora] /\ db[Aurora] # <<>>

\* C7: a catalogue pair that names a column the source's table lacks is treated
\* as no catalogue filter: the call gives what it gives without the pair.
C7_MissingColumnIgnored ==
    (last.op \in {"get_filtered_data", "get_total_count"}
        /\ NoSuchColumn(last.args.auction, last.args.q)) =>
        LET plain == [last.args.q EXCEPT !.catalogue_type = None, !.catalogue_number = None]
        IN  last.result =
               (IF last.op = "get_filtered_data"
                THEN auction_get_filtered_data(last.args.auction, plain, FALSE,
                                               last.args.limit, last.args.offset)
                ELSE auction_get_total_count(last.args.auction, plain, FALSE))

\* The regular filters of a query on one row.
RegularMatch(r, q) ==
    /\ (q.year # None => r.year = q.year)
    /\ (Truthy(q.metals) => r.metal # None /\ Val(r.metal) \in Range(Val(q.metals)))
    /\ (Truthy(q.categories) => r.category # None /\ Val(r.category) \in Range(Val(q.categories)))
    /\ (Truthy(q.search_title) =>
           AllWordsMatch(r.title, improve_search_query(Val(q.search_title))))
    /\ (Truthy(q.search_description) =>
           AllWordsMatch(r.description, improve_search_query(Val(q.search_description))))

\* C8: on Aurora, a catalogue type and number that are both non-empty select
\* exactly the rows whose catalogue column equals the number, whatever the other
\* filters say (a missing column refuses the statement, whatever they say);
\* otherwise the regular filters select and no catalogue condition is added.
C8_CataloguePriority ==
    ((last.op = "get_total_count" \/ (last.op = "get_filtered_data" /\ last.args.limit = None))
        /\ last.args.auction = Aurora) =>
        LET q == last.args.q
            active == q.catalogue_type \notin {None, Some("")}
                      /\ q.catalogue_number \notin {None, Some("")}
            expected ==
                IF active
                THEN SelectSeq(db[Aurora], LAMBDA r : r.catalogue_bitkin = q.catalogue_number)
                ELSE SelectSeq(db[Aurora], LAMBDA r : RegularMatch(r, q))
        IN  IF active /\ "catalogue_bitkin" \notin columns[Aurora]
            THEN last.result = Raise("DatabaseError")
            ELSE last.result = (IF last.op = "get_total_count"
                                THEN Ok(Len(expected)) ELSE Ok(expected))

\* C8 witness: the catalogue pair selected the one row with that number although
\* the query also asks for a year the row does not have, and left out a row.
C8_Witness ==
    /\ last.op = "get_filtered_data" /\ last.args.auction = Aurora
    /\ last.args.q.catalogue_number = Some("k1") /\ last.args.q.year = Some(2)
    /\ ~Raised(last.result) /\ Len(last.result.value) = 1 /\ Len(db[Aurora]) = 2
    /\ last.result.value[1].year = Some(1)

\* C9: get_combined_data with limit=None returns every matching record from
\* position offset to the end of the sorted sequence.
C9_NoLimitUnbounded ==
    (last.op = "get_combined_data" /\ last.args.limit = None) =>
        LET a == last.args
            n == Matching(a.selected_auctions, a.q)
        IN  /\ ~Raised(last.result)
            /\ Len(last.result.value) = Max(0, n - a.offset)
            /\ last.result = get_combined_data(a.selected_auctions, a.q, a.currency,
                                               a.sort_by, Some(n + 1), a.offset)

\* a.year >= b.year: not so when either year is null.
YearGE(a, b) == a # None /\ b # None /\ Val(a) >= Val(b)

\* The years <<a, b>> of the consecutive pairs of the page returned last.
YearPairs ==
    {<<last.result.value[i].lot.year, last.result.value[i + 1].lot.year>> :
        i \in 1..(Len(last.result.value) - 1)}

Returned(sort_by) ==
    last.op = "get_combined_data" /\ last.args.sort_by = sort_by /\ ~Raised(last.result)

\* C10 as stated: under year_desc every consecutive pair of a page has
\* a.year >= b.year, under year_asc a.year <= b.year.
C10_Original ==
    /\ Returned("year_desc") => \A p \in YearPairs : YearGE(p[1], p[2])
    /\ Returned("year_asc") => \A p \in YearPairs : YearGE(p[2], p[1])

\* C10 amended: in a page, every consecutive pair whose years are both known
\* has a.year >= b.year under year_desc (a.year <= b.year under year_asc), and a
\* record without a year is followed only by records without a year.
C10_SortedNullsLast ==
    /\ Returned("year_desc") =>
          \A p \in YearPairs : IF p[1] = None THEN p[2] = None
                                ELSE p[2] = None \/ Val(p[1]) >= Val(p[2])
    /\ Returned("year_asc") =>
          \A p \in YearPairs : IF p[1] = None THEN p[2] = None
                                ELSE p[2] = None \/ Val(p[1]) <= Val(p[2])

\* C10 witness: a year_desc page whose first record comes from the source
\* selected second, ahead of an older record of the source selected first.
C10_Witness ==
    /\ Returned("year_desc") /\ Len(last.result.value) = 2
    /\ last.args.selected_auctions = <<Aurora, RedkieMonety>>
    /\ last.result.value[1].auction_name = RedkieMonety
    /\ last.result.value[2].auction_name = Aurora
    /\ last.result.value[1].lot.year = Some(2) /\ last.result.value[2].lot.year = Some(1)

RECURSIVE ArrivalOrder(_, _)
\* The matching rows of the selected sources whose store is there, source after
\* source in the order of the selection, each source's rows in table order.
ArrivalOrder(selected_auctions, q) ==
    IF selected_auctions = <<>> THEN <<>>
    ELSE LET n == Head(selected_auctions)
             rows == IF n \in Registered /\ exists[n]
                     THEN auction_get_filtered_data(n, OwnQuery(n, q), FALSE, None, 0).value
                     ELSE <<>>
         IN  [i \in 1..Len(rows) |-> [auction_name |-> n, lot |-> rows[i]]]
             \o ArrivalOrder(Tail(selected_auctions), q)

\* C11 as stated: under a sort_by that is none of the six keys, the records of
\* a page are in descending order of year (records without a year last).
C11_Original ==
    (last.op = "get_combined_data" /\ last.args.sort_by \notin SortKeys
        /\ ~Raised(last.result)) =>
        \A p \in YearPairs : IF p[1] = None THEN p[2] = None
                             ELSE p[2] = None \/ Val(p[1]) >= Val(p[2])

\* C11 amended: under a sort_by that is none of the six keys no sort is applied:
\* the page is cut from the records in arrival order, the sources in the order
\* of the selection and each source's rows in the order its store returns them.
C11_ArrivalOrderKept ==
    (last.op = "get_combined_data" /\ last.args.sort_by \notin SortKeys
        /\ last.args.limit # None /\ ~Raised(last.result)) =>
        LET all == ArrivalOrder(last.args.selected_auctions, last.args.q)
        IN  last.result.value =
               SubSeq(all, last.args.offset + 1,
                      Min(Len(all), last.args.offset + Val(last.args.limit)))

\* C11 witness: a page under an unrecognised key that holds a record of year 1
\* ahead of a record of year 2, as the two rows lie in Aurora's table.
C11_Witness ==
    /\ last.op = "get_combined_data" /\ last.args.sort_by \notin SortKeys
    /\ ~Raised(last.result) /\ Len(last.result.value) = 2
    /\ last.result.value[1].lot.year = Some(1) /\ last.result.value[2].lot.year = Some(2)
    /\ last.result.value[1].auction_name = Aurora

RECURSIVE PagesFrom(_, _)
\* The pages of the request a at offsets k * limit, (k + 1) * limit, ... up to
\* the last matching record, one after the other.
PagesFrom(a, k) ==
    IF k * Val(a.limit) >= Matching(a.selected_auctions, a.q) THEN <<>>
    ELSE get_combined_data(a.selected_auctions, a.q, a.currency, a.sort_by,
                           a.limit, k * Val(a.limit)).value
         \o PagesFrom(a, k + 1)

\* The number of times x occurs in the sequence seq.
Occurrences(seq, x) == Cardinality({i \in 1..Len(seq) : seq[i] = x})

\* C12: the pages of size L at offsets 0, L, 2L, ... are all returned, and one
\* after the other they are the whole sorted sequence: every matching record of
\* the selected sources exactly once.
C12_PagesPartition ==
    (last.op = "get_combined_data" /\ last.args.limit # None) =>
        LET a == last.args
            n == Matching(a.selected_auctions, a.q)
            all == ArrivalOrder(a.selected_auctions, a.q)
            whole == get_combined_data(a.selected_auctions, a.q, a.currency, a.sort_by,
                                       Some(n + 1), 0)
            pages == PagesFrom(a, 0)
        IN  /\ ~Raised(last.result)
            /\ ~Raised(whole)
            /\ pages = whole.value
            /\ Len(pages) = n
            /\ \A x \in Range(all) \cup Range(pages) :
                  Occurrences(pages, x) = Occurrences(all, x)

\* The positions of s where a token starts: a character that is not whitespace,
\* at the start of s or after whitespace.
TokenStarts(s) ==
    {i \in 1..Len(s) : s[i] \notin {" ", "\t"} /\ (i = 1 \/ s[i - 1] \in {" ", "\t"})}

\* The position where the token that starts at i ends.
TokenEnd(s, i) ==
    CHOOSE j \in i..Len(s) :
        /\ \A k \in i..j : s[k] \notin {" ", "\t"}
        /\ j = Len(s) \/ s[j + 1] \in {" ", "\t"}

\* The tokens of s of two characters or more, lowercased, in their order in s.
LongTokens(s) ==
    LET starts == {i \in TokenStarts(s) : TokenEnd(s, i) - i + 1 >= 2}
        order == SortedSeq(starts, [i \in starts |-> i])
    IN  [k \in 1..Len(order) |->
            [m \in 1..(TokenEnd(s, order[k]) - order[k] + 1) |->
                PyLower(s[order[k] + m - 1])]]

\* C13: improve_search_query(q) is the list, in their order in q, of the
\* whitespace-separated tokens of q of length >= 2, each lowercased; the empty
\* list when there is none.
C13_LongTokensLowercased ==
    last.op = "improve_search_query" =>
        last.result = Ok(LongTokens(last.args.query))

\* C13 witness: a text of two long tokens with upper-case letters gave both,
\* lowercased, in their order.
C13_Witness ==
    /\ last.op = "improve_search_query"
    /\ last.args.query = <<"ZH", "b", " ", "b", "A">>
    /\ last.result = Ok(<< <<"zh", "b">>, <<"b", "a">> >>)

\* A search text that is given and normalizes to no tokens.
NoTokens(o) == o # None /\ LongTokens(Val(o)) = <<>>

\* What the adapter call made last gives for the query q.
SameCall(q) ==
    IF last.op = "get_filtered_data"
    THEN auction_get_filtered_data(last.args.auction, q, FALSE, last.args.limit,
                                   last.args.offset)
    ELSE auction_get_total_count(last.args.auction, q, FALSE)

\* C14: a search_title or search_description that normalizes to no tokens
\* imposes no text filter: get_filtered_data and get_total_count give what they
\* give with that field absent.
C14_NoTokensNoFilter ==
    last.op \in {"get_filtered_data", "get_total_count"} =>
        /\ NoTokens(last.args.q.search_title) =>
              last.result = SameCall([last.args.q EXCEPT !.search_title = None])
        /\ NoTokens(last.args.q.search_description) =>
              last.result = SameCall([last.args.q EXCEPT !.search_description = None])

\* C14 witness: a title search of two one-character tokens returned both rows
\* of the table, one of them without a title.
C14_Witness ==
    /\ last.op = "get_filtered_data"
    /\ last.args.q.search_title = Some(<<"a", " ", "b">>)
    /\ last.args.q.search_description = None
    /\ ~Raised(last.result) /\ Len(last.result.value) = 2
    /\ last.result.value[2].title = None

\* token is a substring of text, letters compared without regard to case.
Substring(token, text) ==
    \E o \in 0..(Len(text) - Len(token)) :
        \A k \in 1..Len(token) : PyLower(text[o + k]) = PyLower(token[k])

\* Every token of the search text is a substring of the field, a null field
\* read as the empty text.
AllTokensIn(search, field) ==
    search # None =>
        \A i \in 1..Len(LongTokens(Val(search))) :
            Substring(LongTokens(Val(search))[i], IF field = None THEN <<>> ELSE Val(field))

\* C15: with no catalogue filter, the rows an adapter selects and counts under
\* a text search are exactly those whose title holds every token of
\* search_title and whose description holds every token of search_description,
\* as case-insensitive substrings.
C15_AllTokensSubstrings ==
    (last.op \in {"get_filtered_data", "get_total_count"}
        /\ last.args.q.catalogue_type = None /\ last.args.q.catalogue_number = None
        /\ last.args.q.year = None /\ last.args.q.metals = None
        /\ last.args.q.categories = None) =>
        LET q == last.args.q
            expected == SelectSeq(db[last.args.auction],
                            LAMBDA r : /\ AllTokensIn(q.search_title, r.title)
                                       /\ AllTokensIn(q.search_description, r.description))
        IN  last.result = (IF last.op = "get_total_count" THEN Ok(Len(expected))
                           ELSE Ok(LimitOffset(expected, last.args.limit, last.args.offset)))

\* The values some selected source with its store there offers under key.
Offered(selected_auctions, key) ==
    UNION {Range(auction_get_filter_options(n).value[key]) :
              n \in {m \in Range(selected_auctions) \cap Registered : exists[m]}}

\* C16: each list of get_combined_filter_options holds exactly the values the
\* selected reachable sources offer, in ascending order and once each.
C16_OptionsAreSortedUnion ==
    last.op = "get_combined_filter_options" =>
        /\ ~Raised(last.result)
        /\ \A key \in {"metals", "years", "categories"} :
              LET list == last.result.value[key]
              IN  /\ Range(list) = Offered(last.args.selected_auctions, key)
                  /\ \A i, j \in 1..Len(list) :
                        i < j => IF key = "years" THEN list[i] < list[j]
                                 ELSE StrRank(list[i]) < StrRank(list[j])

\* C16 witness: three reachable sources, two of them offering "Ag" and two the
\* year 2, gave each value once and in order.
C16_Witness ==
    /\ last.op = "get_combined_filter_options"
    /\ last.args.selected_auctions = <<Adalex, Aurora, RedkieMonety>>
    /\ \A n \in Registered : exists[n]
    /\ last.result = Ok([metals |-> <<"Ag", "Au">>, years |-> <<1, 2>>,
                         categories |-> <<"coin", "medal">>])

\* C17: available_auctions is computed in the constructor and no query,
\* teardown or change of a store changes it afterwards.
C17_AvailableStatic == [][available_auctions' = available_auctions]_vars

\* C17 witness: after a teardown, available_auctions differs from the list the
\* stores present now would give.
C17_Witness ==
    /\ last.op = "close_all_connections"
    /\ available_auctions # _get_available_auctions(exists)
    /\ available_auctions = <<Adalex>> /\ exists[Aurora] /\ ~exists[Adalex]

\* C18: get_combined_data called again with the same selection and spec, in the
\* state the call made last has left (connections it opened included), has the
\* outcome that call had.
C18_RepeatGivesSame ==
    last.op = "get_combined_data" =>
        get_combined_data(last.args.selected_auctions, last.args.q, last.args.currency,
                          last.args.sort_by, last.args.limit, last.args.offset)
        = last.result

\* C18 witness: a page of two Aurora records was returned over a connection
\* opened after a teardown (Redkie Monety's is still closed).
C18_Witness ==
    /\ last.op = "get_combined_data" /\ last.args.selected_auctions = <<Aurora>>
    /\ ~Raised(last.result) /\ Len(last.result.value) = 2
    /\ conn[Aurora] /\ exists[RedkieMonety] /\ ~conn[RedkieMonety]
    /\ RedkieMonety \in Range(available_auctions)

\* The *.jpg files of directory d in ascending order of name, none when d is no
\* directory.
JpgFilesOf(d) ==
    IF d \notin DOMAIN request.listing \/ request.listing[d] = None THEN <<>>
    ELSE LET F == {f \in Val(request.listing[d]) : f \in {"a.jpg", "b.jpg"}}
         IN  IF F = {"a.jpg", "b.jpg"} THEN << <<d, "a.jpg">>, <<d, "b.jpg">> >>
             ELSE IF F = {} THEN <<>> ELSE <<<<d, CHOOSE f \in F : TRUE>>>>

\* C19: get_lot_images(lot) is empty when the lot's tag is missing, empty or
\* names no registered source; otherwise it is what the tagged source's adapter
\* gives: for Aurora the stored image_url alone, or nothing when there is none;
\* for Adalex the sorted *.jpg files of image_dir, or nothing.
C19_ImagesByTag ==
    last.op = "get_lot_images" =>
        LET lot == last.args.lot
            tag == lot.auction_name
        IN  last.result =
               Ok(IF tag \in {None, Some("")} \/ Val(tag) \notin Registered THEN <<>>
                  ELSE CASE Val(tag) = Aurora ->
                                (IF lot.image_url \in {None, Some("")} THEN <<>>
                                 ELSE <<Val(lot.image_url)>>)
                         [] Val(tag) = Adalex ->
                                (IF lot.image_dir \in {None, Some("")} THEN <<>>
                                 ELSE JpgFilesOf(Val(lot.image_dir)))
                         [] Val(tag) = RedkieMonety ->
                                RedkieMonetyAuction_get_lot_images(lot).value)

\* C19 witness: a lot tagged Adalex, with an image_url as well, whose directory
\* holds two jpg files and a png, got the two jpg files in order.
C19_Witness ==
    /\ last.op = "get_lot_images"
    /\ last.args.lot = [auction_name |-> Some(Adalex), image_url |-> Some("u1"),
                        image_dir |-> Some("d1")]
    /\ request.listing["d1"] = Some({"a.jpg", "b.jpg", "c.png"})
    /\ last.result = Ok(<< <<"d1", "a.jpg">>, <<"d1", "b.jpg">> >>)

\* C20: every adapter has at most one open connection, the one it holds in
\* self.conn: none is open when it holds none.
C20_AtMostOneConnection ==
    \A n \in Registered : nopen[n] = (IF conn[n] THEN 1 ELSE 0)

\* C20 witness: Aurora was queried and has one connection open, after a
\* teardown that left Adalex, listed as available and with its store there,
\* without one.
C20_Witness ==
    /\ last.op = "get_total_count" /\ last.args.auction = Aurora
    /\ exists[Aurora] /\ conn[Aurora] /\ nopen[Aurora] = 1
    /\ Adalex \in Range(available_auctions) /\ exists[Adalex] /\ ~conn[Adalex]

\* What the queries of the model give in the current state: each adapter's rows,
\* count and options, and the rows and the count the aggregator collects over
\* all the sources (its page is sorted and cut from these rows).
Answers ==
    [adapter |-> [n \in Registered |->
                    [q \in LifeQueries |->
                        <<auction_get_filtered_data(n, OwnQuery(n, q), FALSE, None, 0),
                          auction_get_total_count(n, OwnQuery(n, q), FALSE),
                          auction_get_filter_options(n)>>]],
     factory |-> [sel \in {auctions, <<Aurora, RedkieMonety>>} |->
                    <<fetch_all(sel, request.q), get_combined_total_count(sel, request.q)>>]]

\* C21: a step of close_all_connections leaves no adapter with a connection,
\* whatever came before; a second call changes nothing; and a query on a source
\* whose store is there opens one connection again and every query gives what
\* it gave before the teardown.
C21_TeardownClosesAll ==
    [][last'.op = "close_all_connections" =>
          /\ \A n \in Registered :
                /\ ~conn'[n] /\ nopen'[n] = 0
                /\ close_connection(n)' = [conn |-> FALSE, nopen |-> 0]
                /\ exists'[n] => get_connection(n)' = [ret |-> TRUE, conn |-> TRUE, nopen |-> 1]
          /\ Answers' = Answers]_vars

\* C21 witness: a teardown has closed the connections of all three sources,
\* opened at construction, Aurora's among them after its store had gone.
C21_Witness ==
    /\ last.op = "close_all_connections"
    /\ available_auctions = auctions
    /\ ~exists[Aurora] /\ exists[Adalex] /\ exists[RedkieMonety]
    /\ \A n \in Registered : ~conn[n] /\ nopen[n] = 0

\* The sources the records of a page are tagged with.
SourcesOf(rows) == {rows[i].auction_name : i \in 1..Len(rows)}

\* The rows source n has for the query q, asked through its own signature.
OwnRows(n, q) == auction_get_filtered_data(n, OwnQuery(n, q), FALSE, None, 0).value

\* C22: in get_combined_data, get_combined_total_count and
\* get_combined_filter_options a selected source takes part exactly when its
\* store exists at the time of the call, whether available_auctions lists it or
\* not: a source whose store is gone contributes nothing, and a source whose
\* store is there contributes its rows, its count and its options.
C22_ParticipationPerRequest ==
    LET a == last.args
    IN  /\ last.op = "get_combined_data" =>
              /\ ~Raised(last.result)
              /\ \A n \in Range(a.selected_auctions) :
                    /\ ~exists[n] => n \notin SourcesOf(last.result.value)
                    /\ (exists[n] /\ OwnRows(n, a.q) # <<>>
                           /\ Matching(a.selected_auctions, a.q) <= Val(a.limit)) =>
                          n \in SourcesOf(last.result.value)
        /\ last.op = "get_combined_total_count" =>
              /\ ~Raised(last.result)
              /\ last.result.value = Matching(a.selected_auctions, a.q)
        /\ last.op = "get_combined_filter_options" =>
              /\ ~Raised(last.result)
              /\ \A key \in {"metals", "years", "categories"} :
                    Range(last.result.value[key]) = Offered(a.selected_auctions, key)

\* The empty default of an adapter operation.
EmptyDefault(op) ==
    CASE op = "get_filtered_data" -> Ok(<<>>)
      [] op = "get_total_count" -> Ok(0)
      [] op = "get_filter_options" -> Ok(EmptyOptions)

\* C23: while an adapter holds a connection and its store path does not exist,
\* get_connection returns None and leaves the connection held and open, and
\* the adapter's operations return their empty defaults; a held connection is
\* given up only by a teardown; and when the store path exists again
\* get_connection returns the held connection and opens no other.
C23_HeldConnectionKept ==
    [][\A n \in Registered :
          /\ (conn[n] /\ ~exists[n]) =>
                /\ nopen[n] = 1
                /\ get_connection(n) = [ret |-> FALSE, conn |-> TRUE, nopen |-> 1]
                /\ (last'.op \in AdapterOps /\ last'.args.auction = n) =>
                      /\ last'.result = EmptyDefault(last'.op)
                      /\ conn'[n] /\ nopen'[n] = 1
          /\ (conn[n] /\ ~conn'[n]) => last'.op = "close_all_connections"
          /\ (conn[n] /\ ~exists[n] /\ exists'[n]) =>
                /\ conn'[n] /\ nopen'[n] = 1
                /\ get_connection(n)' = [ret |-> TRUE, conn |-> TRUE, nopen |-> 1]]_vars

\* C23 witness: the store of Aurora has appeared again while the adapter was
\* holding a connection, which it still holds, the only one it has open.
C23_Witness ==
    /\ last.op = "store_appears" /\ last.args.auction = Aurora
    /\ Aurora \in Range(available_auctions)
    /\ exists[Aurora] /\ conn[Aurora] /\ nopen[Aurora] = 1

\* The value of the column a record is sorted by under sort_by.
KeyOf(r, sort_by) ==
    CASE sort_by \in {"year_desc", "year_asc"} -> r.lot.year
      [] sort_by \in {"date_recent", "date_old"} -> r.lot.close_date
      [] sort_by \in {"price_high", "price_low"} -> r.lot.final_price_rub

\* The matching records of the selection whose sort key is known.
KnownKey(selected_auctions, q, sort_by) ==
    LET all == ArrivalOrder(selected_auctions, q)
    IN  Cardinality({i \in 1..Len(all) : KeyOf(all[i], sort_by) # None})

\* C24: under each of the six sort keys, ascending or descending, the records
\* without a value in the sort column come after all the records with one: the
\* record at place i of the page at offset O lacks the value exactly when O + i
\* exceeds the number of matching records that have it, so no such record is on
\* a page when at least offset + limit matching records have the value.
C24_NullKeysLast ==
    (last.op = "get_combined_data" /\ last.args.sort_by \in SortKeys
        /\ ~Raised(last.result)) =>
        LET a == last.args
            page == last.result.value
            known == KnownKey(a.selected_auctions, a.q, a.sort_by)
        IN  /\ \A i \in 1..Len(page) :
                  (KeyOf(page[i], a.sort_by) = None) <=> (a.offset + i > known)
            /\ (\E i \in 1..Len(page) : KeyOf(page[i], a.sort_by) = None) =>
                  known < a.offset + Val(a.limit)

\* C24 witness: under date_old, an ascending sort, a page of two holds the
\* dated record of Redkie Monety ahead of the undated record of Aurora, which
\* arrived first.
C24_Witness ==
    /\ last.op = "get_combined_data" /\ last.args.sort_by = "date_old"
    /\ ~Raised(last.result) /\ Len(last.result.value) = 2
    /\ last.result.value[1].auction_name = RedkieMonety
    /\ last.result.value[1].lot.close_date # None
    /\ last.result.value[2].auction_name = Aurora
    /\ last.result.value[2].lot.close_date = None

====
